---- MODULE Spec2Model ----
(***************************************************************************)
(* Model of scripts/ingest_animal_data.py: ingest_data_chunk opens a       *)
(* PostgreSQL connection, asks the embedding provider for a vector,        *)
(* inserts one row into animal_knowledge_base, commits, and on any         *)
(* exception prints an error line and rolls back; the finally block        *)
(* closes the cursor and the connection.                                   *)
(*                                                                         *)
(* Every external call (connect, cursor, embeddings, execute, commit,      *)
(* rollback, cursor close) either succeeds or raises; the choice is        *)
(* nondeterministic.  print and connection.close are taken not to raise.   *)
(* The database is modelled by its committed table and one session per     *)
(* open connection holding that connection's uncommitted rows.             *)
(***************************************************************************)
EXTENDS Integers, Sequences, FiniteSets, TLC

\* ---------------------------------------------------------------- bounds
MaxCalls == 2          \* calls made by the sequential caller
EmbeddingDim == 2      \* output dimensionality of the configured provider

Procs == {1, 2}        \* callers; the sequential specification uses caller 1
Contents == {"golden", "siamese"}
AnimalTypes == {"dog", "cat"}
Urls == {"https://example.com/info"}
EmbedValues == {0, 1}

\* Python's None for source_url (SQL NULL once stored) and for conn.
NoUrl == "None"
NoConn == 0
Omitted == "omitted"   \* the caller passed no third argument
Unbound == "unbound"   \* a local name that was never assigned

VARIABLES
  pc,          \* pc[p]: position of caller p inside ingest_data_chunk
  args,        \* args[p]: the arguments as passed and as bound to parameters
  conn,        \* local conn: NoConn or a connection id
  cur,         \* local cur: Unbound, "open" or "closed"
  embedding,   \* local embedding: Unbound-as-<<>> or the vector
  response,    \* what ollama.embeddings returned to this call (<<>> if none)
  inflight,    \* an exception is propagating out of the call
  out,         \* lines this call printed
  log,         \* external calls this call made, in order
  failed,      \* external calls of this call that raised
  committed,   \* this call's commit returned normally
  before,      \* the committed table when this call started
  table,       \* committed rows of animal_knowledge_base, in commit order
  sessions,    \* open connection id -> [status, pending rows]
  nextConn,    \* next connection id the server hands out
  nextUuid,    \* number of uuid4() calls made so far
  ncalls,      \* calls started
  ncommits     \* calls whose commit returned normally

vars == <<pc, args, conn, cur, embedding, response, inflight, out, log, failed,
          committed, before, table, sessions, nextConn, nextUuid, ncalls, ncommits>>

locals == <<args, conn, cur, embedding, response, inflight, out, log, failed,
            committed, before>>

\* ------------------------------------------------------------- pure parts

\* The provider returns a vector of its configured dimensionality.
ProviderVectors == { [i \in 1..EmbeddingDim |-> v] : v \in EmbedValues }

\* ollama.embeddings(model=EMBEDDING_MODEL, prompt=text): the response object.
ProviderResponses == { [model |-> "nomic-embed-text", embedding |-> v] : v \in ProviderVectors }

generate_embedding_truncating(resp) == Tail(resp.embedding)

\* generate_embedding: return response['embedding']
generate_embedding(resp) == resp.embedding

uuid4_constant(n) == "uuid-0"

\* str(uuid.uuid4()): a fresh identifier, the n-th one generated
uuid4(n) == <<"uuid", n>>

\* def ingest_data_chunk(content, animal_type, source_url=None)
BindSourceUrl(passed) == IF passed = Omitted THEN NoUrl ELSE passed

InsertRow_swapped(id, content, emb, animal_type, source_url) ==
  [id |-> id, content |-> animal_type, embedding |-> emb,
   animal_type |-> content, source_url |-> source_url]

\* INSERT INTO animal_knowledge_base (id, content, embedding, animal_type, source_url)
\* VALUES (%s, %s, %s, %s, %s) with the parameter tuple of line 45
InsertRow(id, content, emb, animal_type, source_url) ==
  [id |-> id, content |-> content, embedding |-> emb,
   animal_type |-> animal_type, source_url |-> source_url]

SuccessLine(animal_type) == <<"Successfully ingested data for animal type: ", animal_type>>
ErrorLine == <<"Error ingesting data: ", "e">>

NewSession == [status |-> "idle", pending |-> <<>>]

\* ------------------------------------------------------------------ state

Init ==
  /\ pc = [p \in Procs |-> "idle"]
  /\ args = [p \in Procs |-> [passed |-> Omitted, content |-> "golden",
                              animal_type |-> "dog", source_url |-> NoUrl]]
  /\ conn = [p \in Procs |-> NoConn]
  /\ cur = [p \in Procs |-> Unbound]
  /\ embedding = [p \in Procs |-> <<>>]
  /\ response = [p \in Procs |-> <<>>]
  /\ inflight = [p \in Procs |-> FALSE]
  /\ out = [p \in Procs |-> <<>>]
  /\ log = [p \in Procs |-> <<>>]
  /\ failed = [p \in Procs |-> {}]
  /\ committed = [p \in Procs |-> FALSE]
  /\ before = [p \in Procs |-> <<>>]
  /\ table = <<>>
  /\ sessions = <<>>
  /\ nextConn = 1
  /\ nextUuid = 0
  /\ ncalls = 0
  /\ ncommits = 0

\* Entering ingest_data_chunk: parameters bound, conn = None (line 34).
Enter(p, c, t, u) ==
  /\ args' = [args EXCEPT ![p] = [passed |-> u, content |-> c, animal_type |-> t,
                                  source_url |-> BindSourceUrl(u)]]
  /\ conn' = [conn EXCEPT ![p] = NoConn]
  /\ cur' = [cur EXCEPT ![p] = Unbound]
  /\ embedding' = [embedding EXCEPT ![p] = <<>>]
  /\ response' = [response EXCEPT ![p] = <<>>]
  /\ inflight' = [inflight EXCEPT ![p] = FALSE]
  /\ out' = [out EXCEPT ![p] = <<>>]
  /\ log' = [log EXCEPT ![p] = <<>>]
  /\ failed' = [failed EXCEPT ![p] = {}]
  /\ committed' = [committed EXCEPT ![p] = FALSE]
  /\ before' = [before EXCEPT ![p] = table]
  /\ pc' = [pc EXCEPT ![p] = "connect"]
  /\ ncalls' = ncalls + 1
  /\ UNCHANGED <<table, sessions, nextConn, nextUuid, ncommits>>

\* A caller that makes one call after another (as __main__ does).
Call ==
  /\ pc[1] \in {"idle", "done"}
  /\ ncalls < MaxCalls
  /\ \E c \in Contents, t \in AnimalTypes, u \in Urls \cup {Omitted} : Enter(1, c, t, u)

\* Two callers, each making one call, concurrently.
CallConcurrent(p) ==
  /\ pc[p] = "idle"
  /\ \E c \in Contents, t \in AnimalTypes, u \in Urls \cup {Omitted} : Enter(p, c, t, u)

\* The step at pc[p] raised: control goes to the except clause.
Raise(p, step) ==
  /\ failed' = [failed EXCEPT ![p] = @ \cup {step}]
  /\ pc' = [pc EXCEPT ![p] = "except"]

\* conn = get_db_connection()
Connect(p) ==
  /\ pc[p] = "connect"
  /\ log' = [log EXCEPT ![p] = Append(@, "connect")]
  /\ \/ /\ conn' = [conn EXCEPT ![p] = nextConn]
        /\ sessions' = [i \in DOMAIN sessions \cup {nextConn} |->
                          IF i = nextConn THEN NewSession ELSE sessions[i]]
        /\ nextConn' = nextConn + 1
        /\ pc' = [pc EXCEPT ![p] = "cursor"]
        /\ UNCHANGED failed
     \/ /\ Raise(p, "connect")
        /\ UNCHANGED <<conn, sessions, nextConn>>
  /\ UNCHANGED <<args, cur, embedding, response, inflight, out, committed, before,
                 table, nextUuid, ncalls, ncommits>>

\* cur = conn.cursor()
Cursor(p) ==
  /\ pc[p] = "cursor"
  /\ log' = [log EXCEPT ![p] = Append(@, "cursor")]
  /\ \/ /\ cur' = [cur EXCEPT ![p] = "open"]
        /\ pc' = [pc EXCEPT ![p] = "embed"]
        /\ UNCHANGED failed
     \/ /\ Raise(p, "cursor")
        /\ UNCHANGED cur
  /\ UNCHANGED <<args, conn, embedding, response, inflight, out, committed, before,
                 table, sessions, nextConn, nextUuid, ncalls, ncommits>>

\* embedding = generate_embedding(content)
Embed(p) ==
  /\ pc[p] = "embed"
  /\ log' = [log EXCEPT ![p] = Append(@, "embed")]
  /\ \/ \E resp \in ProviderResponses :
          /\ response' = [response EXCEPT ![p] = resp]
          /\ embedding' = [embedding EXCEPT ![p] = generate_embedding(resp)]
          /\ pc' = [pc EXCEPT ![p] = "execute"]
          /\ UNCHANGED failed
     \/ /\ Raise(p, "embed")
        /\ UNCHANGED <<response, embedding>>
  /\ UNCHANGED <<args, conn, cur, inflight, out, committed, before,
                 table, sessions, nextConn, nextUuid, ncalls, ncommits>>

Execute_autocommit(p) ==
  /\ pc[p] = "execute"
  /\ log' = [log EXCEPT ![p] = Append(@, "execute")]
  /\ nextUuid' = nextUuid + 1
  /\ \/ /\ table' = Append(table, InsertRow(uuid4(nextUuid), args[p].content,
                                            embedding[p], args[p].animal_type,
                                            args[p].source_url))
        /\ pc' = [pc EXCEPT ![p] = "commit"]
        /\ UNCHANGED <<failed, sessions>>
     \/ /\ sessions' = [sessions EXCEPT ![conn[p]].status = "inerror"]
        /\ Raise(p, "execute")
        /\ UNCHANGED table
  /\ UNCHANGED <<args, conn, cur, embedding, response, inflight, out, committed, before,
                 nextConn, ncalls, ncommits>>

\* cur.execute(insert_query, (str(uuid.uuid4()), content, embedding, animal_type, source_url))
Execute(p) ==
  /\ pc[p] = "execute"
  /\ log' = [log EXCEPT ![p] = Append(@, "execute")]
  /\ nextUuid' = nextUuid + 1
  /\ \/ /\ sessions' = [sessions EXCEPT ![conn[p]] =
                          [status |-> "intrans",
                           pending |-> Append(@.pending,
                                         InsertRow(uuid4(nextUuid), args[p].content,
                                                   embedding[p], args[p].animal_type,
                                                   args[p].source_url))]]
        /\ pc' = [pc EXCEPT ![p] = "commit"]
        /\ UNCHANGED failed
     \/ /\ sessions' = [sessions EXCEPT ![conn[p]].status = "inerror"]
        /\ Raise(p, "execute")
  /\ UNCHANGED <<args, conn, cur, embedding, response, inflight, out, committed, before,
                 table, nextConn, ncalls, ncommits>>

Commit_persisting_on_failure(p) ==
  /\ pc[p] = "commit"
  /\ log' = [log EXCEPT ![p] = Append(@, "commit")]
  /\ \/ /\ table' = table \o sessions[conn[p]].pending
        /\ sessions' = [sessions EXCEPT ![conn[p]] = NewSession]
        /\ committed' = [committed EXCEPT ![p] = TRUE]
        /\ ncommits' = ncommits + 1
        /\ pc' = [pc EXCEPT ![p] = "print_ok"]
        /\ UNCHANGED failed
     \/ /\ Raise(p, "commit")
        /\ table' = table \o sessions[conn[p]].pending
        /\ UNCHANGED <<sessions, committed, ncommits>>
  /\ UNCHANGED <<args, conn, cur, embedding, response, inflight, out, before,
                 nextConn, nextUuid, ncalls>>

\* conn.commit()
Commit(p) ==
  /\ pc[p] = "commit"
  /\ log' = [log EXCEPT ![p] = Append(@, "commit")]
  /\ \/ /\ table' = table \o sessions[conn[p]].pending
        /\ sessions' = [sessions EXCEPT ![conn[p]] = NewSession]
        /\ committed' = [committed EXCEPT ![p] = TRUE]
        /\ ncommits' = ncommits + 1
        /\ pc' = [pc EXCEPT ![p] = "print_ok"]
        /\ UNCHANGED failed
     \/ /\ Raise(p, "commit")
        /\ UNCHANGED <<table, sessions, committed, ncommits>>
  /\ UNCHANGED <<args, conn, cur, embedding, response, inflight, out, before,
                 nextConn, nextUuid, ncalls>>

\* print(f"Successfully ingested data for animal type: {animal_type}")
PrintSuccess(p) ==
  /\ pc[p] = "print_ok"
  /\ out' = [out EXCEPT ![p] = Append(@, SuccessLine(args[p].animal_type))]
  /\ pc' = [pc EXCEPT ![p] = "finally"]
  /\ UNCHANGED <<args, conn, cur, embedding, response, inflight, log, failed, committed,
                 before, table, sessions, nextConn, nextUuid, ncalls, ncommits>>

Except_without_rollback(p) ==
  /\ pc[p] = "except"
  /\ out' = [out EXCEPT ![p] = Append(@, ErrorLine)]
  /\ pc' = [pc EXCEPT ![p] = "finally"]
  /\ UNCHANGED <<args, conn, cur, embedding, response, inflight, log, failed, committed,
                 before, table, sessions, nextConn, nextUuid, ncalls, ncommits>>

Except_silent(p) ==
  /\ pc[p] = "except"
  /\ pc' = [pc EXCEPT ![p] = IF conn[p] # NoConn THEN "rollback" ELSE "finally"]
  /\ UNCHANGED <<locals, table, sessions, nextConn, nextUuid, ncalls, ncommits>>

\* except Exception as e: print(f"Error ingesting data: {e}"); if conn: ...
Except(p) ==
  /\ pc[p] = "except"
  /\ out' = [out EXCEPT ![p] = Append(@, ErrorLine)]
  /\ pc' = [pc EXCEPT ![p] = IF conn[p] # NoConn THEN "rollback" ELSE "finally"]
  /\ UNCHANGED <<args, conn, cur, embedding, response, inflight, log, failed, committed,
                 before, table, sessions, nextConn, nextUuid, ncalls, ncommits>>

Rollback_all_sessions(p) ==
  /\ pc[p] = "rollback"
  /\ log' = [log EXCEPT ![p] = Append(@, "rollback")]
  /\ \/ /\ sessions' = [i \in DOMAIN sessions |-> NewSession]
        /\ UNCHANGED <<failed, inflight>>
     \/ /\ failed' = [failed EXCEPT ![p] = @ \cup {"rollback"}]
        /\ inflight' = [inflight EXCEPT ![p] = TRUE]
        /\ UNCHANGED sessions
  /\ pc' = [pc EXCEPT ![p] = "finally"]
  /\ UNCHANGED <<args, conn, cur, embedding, response, out, committed, before,
                 table, nextConn, nextUuid, ncalls, ncommits>>

\* conn.rollback(); when it raises, the exception leaves the except clause and
\* propagates after the finally block has run.
Rollback(p) ==
  /\ pc[p] = "rollback"
  /\ log' = [log EXCEPT ![p] = Append(@, "rollback")]
  /\ \/ /\ sessions' = [sessions EXCEPT ![conn[p]] = NewSession]
        /\ UNCHANGED <<failed, inflight>>
     \/ /\ failed' = [failed EXCEPT ![p] = @ \cup {"rollback"}]
        /\ inflight' = [inflight EXCEPT ![p] = TRUE]
        /\ UNCHANGED sessions
  /\ pc' = [pc EXCEPT ![p] = "finally"]
  /\ UNCHANGED <<args, conn, cur, embedding, response, out, committed, before,
                 table, nextConn, nextUuid, ncalls, ncommits>>

\* finally: if conn:
Finally(p) ==
  /\ pc[p] = "finally"
  /\ pc' = [pc EXCEPT ![p] = IF conn[p] # NoConn THEN "cur_close" ELSE "done"]
  /\ UNCHANGED <<locals, table, sessions, nextConn, nextUuid, ncalls, ncommits>>

\* cur.close(): with cur never assigned this is an UnboundLocalError; either
\* way an exception here skips conn.close() and leaves the function.
CursorClose(p) ==
  /\ pc[p] = "cur_close"
  /\ \/ /\ cur[p] = Unbound
        /\ inflight' = [inflight EXCEPT ![p] = TRUE]
        /\ pc' = [pc EXCEPT ![p] = "done"]
        /\ UNCHANGED <<cur, log, failed>>
     \/ /\ cur[p] # Unbound
        /\ log' = [log EXCEPT ![p] = Append(@, "cur_close")]
        /\ \/ /\ cur' = [cur EXCEPT ![p] = "closed"]
              /\ pc' = [pc EXCEPT ![p] = "conn_close"]
              /\ UNCHANGED <<inflight, failed>>
           \/ /\ failed' = [failed EXCEPT ![p] = @ \cup {"cur_close"}]
              /\ inflight' = [inflight EXCEPT ![p] = TRUE]
              /\ pc' = [pc EXCEPT ![p] = "done"]
              /\ UNCHANGED cur
  /\ UNCHANGED <<args, conn, embedding, response, out, committed, before,
                 table, sessions, nextConn, nextUuid, ncalls, ncommits>>

\* conn.close(): the server discards the session and whatever it had pending.
ConnClose(p) ==
  /\ pc[p] = "conn_close"
  /\ log' = [log EXCEPT ![p] = Append(@, "conn_close")]
  /\ sessions' = [i \in DOMAIN sessions \ {conn[p]} |-> sessions[i]]
  /\ pc' = [pc EXCEPT ![p] = "done"]
  /\ UNCHANGED <<args, conn, cur, embedding, response, inflight, out, failed, committed,
                 before, table, nextConn, nextUuid, ncalls, ncommits>>

Step(p) ==
  \/ Connect(p)
  \/ Cursor(p)
  \/ Embed(p)
  \/ Execute(p)
  \/ Commit(p)
  \/ PrintSuccess(p)
  \/ Except(p)
  \/ Rollback(p)
  \/ Finally(p)
  \/ CursorClose(p)
  \/ ConnClose(p)

Next == Call \/ Step(1)

Spec == Init /\ [][Next]_vars

NextConcurrent == \E p \in Procs : CallConcurrent(p) \/ Step(p)

SpecConcurrent == Init /\ [][NextConcurrent]_vars

\* ------------------------------------------------------- properties

Done(p) == pc[p] = "done"
Has(seq, x) == \E i \in 1..Len(seq) : seq[i] = x
IndexOf(seq, x) == CHOOSE i \in 1..Len(seq) : seq[i] = x
IsPrefix(s, t) == Len(s) <= Len(t) /\ SubSeq(t, 1, Len(s)) = s
\* connect, cursor creation, the embedding call, the INSERT and the commit
CoreSteps == {"connect", "cursor", "embed", "execute", "commit"}
CoreSucceeded(p) == Done(p) /\ failed[p] \cap CoreSteps = {}
SessionOpen(p) == conn[p] # NoConn /\ conn[p] \in DOMAIN sessions
NothingPending(p) == SessionOpen(p) => sessions[conn[p]].pending = <<>>
LastRow == table[Len(table)]
SameData(r1, r2) ==
  /\ r1.content = r2.content
  /\ r1.animal_type = r2.animal_type
  /\ r1.source_url = r2.source_url

\* C1: a call whose connect, cursor, embedding, INSERT and commit all succeed
\* leaves the table equal to the table at its start plus exactly one row, whose
\* content and animal_type are the arguments and whose source_url is the
\* argument, or None when the argument was omitted.
C1_OneNewRecord ==
  \A p \in Procs :
    CoreSucceeded(p) =>
      /\ Len(table) = Len(before[p]) + 1
      /\ IsPrefix(before[p], table)
      /\ LastRow.content = args[p].content
      /\ LastRow.animal_type = args[p].animal_type
      /\ LastRow.source_url = (IF args[p].passed = Omitted THEN NoUrl ELSE args[p].passed)

C1_Witness ==
  /\ CoreSucceeded(1)
  /\ args[1].passed = Omitted
  /\ Len(before[1]) = 1
  /\ before[1][1].source_url # NoUrl

\* C2: when the embedding call raises, the call commits nothing (the table is
\* what it was when the call started), conn.rollback() is invoked, no insert is
\* left pending, and the error line is printed.
C2_EmbeddingFailure ==
  \A p \in Procs :
    (Done(p) /\ "embed" \in failed[p]) =>
      /\ table = before[p]
      /\ ~committed[p]
      /\ Has(log[p], "rollback")
      /\ NothingPending(p)
      /\ out[p] = <<ErrorLine>>

C2_Witness == Done(1) /\ "embed" \in failed[1] /\ Len(table) = 1

\* C3: when the INSERT or the commit raises after a successful embedding call,
\* no row of the call is in the committed table, conn.rollback() is invoked
\* (and, unless it raises itself, leaves nothing pending), and the error line
\* is printed; at no time does the table hold a row of a call that has not
\* committed.
C3_InsertOrCommitFailure ==
  \A p \in Procs :
    /\ (pc[p] # "idle" /\ ~committed[p]) => table = before[p]
    /\ (Done(p) /\ failed[p] \cap {"execute", "commit"} # {}) =>
         /\ table = before[p]
         /\ Has(log[p], "embed") /\ "embed" \notin failed[p]
         /\ Has(log[p], "rollback")
         /\ ("rollback" \notin failed[p] => NothingPending(p))
         /\ out[p] = <<ErrorLine>>

C3_Witness ==
  /\ Done(1)
  /\ "commit" \in failed[1]
  /\ "rollback" \notin failed[1]
  /\ Len(table) = 1

\* C4: when a call has ended, the connection it opened is closed.
C4_ConnectionsReleased ==
  \A p \in Procs : Done(p) => ~SessionOpen(p)

\* C5: a call in which connecting, creating the cursor, the embedding call, the
\* INSERT or the commit raised (and nothing else did) returns normally.
C5_NoPropagation ==
  \A p \in Procs :
    (Done(p) /\ failed[p] # {} /\ failed[p] \subseteq CoreSteps) => ~inflight[p]

\* C6: the identifiers of the committed rows are pairwise distinct, and a
\* successful call whose content, animal_type and source_url equal those of an
\* earlier row adds a second row and leaves the earlier one as it was.
C6_NoDeduplication ==
  /\ \A i, j \in 1..Len(table) : i # j => table[i].id # table[j].id
  /\ \A p \in Procs :
       (CoreSucceeded(p) /\ \E i \in 1..Len(before[p]) : SameData(before[p][i], args[p])) =>
         /\ Len(table) = Len(before[p]) + 1
         /\ \A i \in 1..Len(before[p]) : table[i] = before[p][i]
         /\ SameData(LastRow, args[p])

C6_Witness ==
  /\ CoreSucceeded(1)
  /\ Len(table) = 2
  /\ SameData(table[1], table[2])
  /\ table[1].embedding = table[2].embedding

\* The row a committed call is expected to have written, without its id.
ExpectedRow(p) ==
  [content |-> args[p].content, embedding |-> response[p].embedding,
   animal_type |-> args[p].animal_type, source_url |-> args[p].source_url]
StripId(r) ==
  [content |-> r.content, embedding |-> r.embedding,
   animal_type |-> r.animal_type, source_url |-> r.source_url]
CommittedCalls == {p \in Procs : committed[p]}

C7_State ==
  /\ \A p, q \in Procs : (p # q /\ conn[p] # NoConn) => conn[p] # conn[q]
  /\ \A p \in Procs : CoreSucceeded(p) => committed[p]
  /\ (\A p \in Procs : pc[p] \in {"idle", "done"}) =>
       /\ Len(table) = Cardinality(CommittedCalls)
       /\ \E f \in [1..Len(table) -> CommittedCalls] :
            /\ \A i, j \in 1..Len(table) : i # j => f[i] # f[j]
            /\ \A i \in 1..Len(table) : StripId(table[i]) = ExpectedRow(f[i])

\* C7: two concurrent calls use distinct connections; under every interleaving
\* a call whose own steps succeed commits, no step removes a committed row, and
\* when both have ended the table holds exactly one row per call that committed.
C7_Independent == [](C7_State) /\ [][IsPrefix(table, table')]_vars

C7_Witness ==
  /\ committed[1]
  /\ pc[1] = "print_ok"
  /\ pc[2] = "finally"
  /\ "commit" \in failed[2]
  /\ Has(log[2], "rollback")
  /\ SessionOpen(1) /\ SessionOpen(2)
  /\ conn[2] < conn[1]

\* C8: a call that has ended printed exactly one line; it is the success line
\* naming animal_type exactly when the call committed (and the success line is
\* never printed before the commit); otherwise it is the error line and, if a
\* connection was open, rollback was invoked, before any close of the connection.
C8_OneOutcomeLine ==
  \A p \in Procs :
    /\ Has(out[p], SuccessLine(args[p].animal_type)) => committed[p]
    /\ Done(p) =>
         /\ Len(out[p]) = 1
         /\ committed[p] <=> (out[p] = <<SuccessLine(args[p].animal_type)>>)
         /\ ~committed[p] =>
              /\ out[p] = <<ErrorLine>>
              /\ conn[p] # NoConn =>
                   /\ Has(log[p], "rollback")
                   /\ Has(log[p], "conn_close") =>
                        IndexOf(log[p], "rollback") < IndexOf(log[p], "conn_close")

C8_Witness ==
  /\ Done(1)
  /\ ~committed[1]
  /\ Has(log[1], "conn_close")
  /\ Len(table) = 1
  /\ before[1] = table

\* C9: the embedding of the row a call committed is the vector the provider
\* returned to that call, and every committed row's embedding has the
\* provider's dimensionality.
C9_EmbeddingStored ==
  /\ \A i \in 1..Len(table) : Len(table[i].embedding) = EmbeddingDim
  /\ \A p \in Procs :
       (committed[p] /\ pc[p] # "idle") =>
         /\ LastRow.embedding = response[p].embedding
         /\ response[p] \in ProviderResponses

C9_Witness ==
  /\ Done(1)
  /\ committed[1]
  /\ Len(table) = 2
  /\ table[1].embedding # table[2].embedding

C10_State ==
  /\ Len(table) = ncommits
  /\ \A p \in Procs : (Done(p) /\ ~committed[p]) => table = before[p]

\* C10: every step leaves the rows already committed as they were and in place
\* (the table only grows at its end), the number of rows is the number of calls
\* that committed, and a call that did not commit leaves the table unchanged.
C10_AppendOnly == [](C10_State) /\ [][IsPrefix(table, table')]_vars

C10_Witness ==
  /\ Done(1)
  /\ ~committed[1]
  /\ "execute" \in failed[1]
  /\ Len(table) = 1
  /\ ncalls = 2

====
